---- MODULE Spec2Model ----
(***************************************************************************)
(* Model of sivustohaku.Hakemisto: the registry of search indices          *)
(* (Hakemisto.hakemistot), registration through Hakemisto(...) used        *)
(* directly or as a decorator, and the asynchronous generator              *)
(* Hakemisto.haku(request, haku), which is advanced by its consumer and    *)
(* suspends at the authorization hook and at every index's fetch.          *)
(*                                                                         *)
(* Strings are sequences of one-character strings, relevance weights are   *)
(* integers (only their order is used by the code).                        *)
(***************************************************************************)
EXTENDS Integers, Sequences, FiniteSets, TLC

VARIABLES
  hakemistot,   \* Hakemisto.hakemistot: the list of registered indices
  koriste,      \* kwargs of the closure `aseta` the registering code holds
  paluu,        \* what the last call of Hakemisto(...), aseta(...), haku(...) returned
  pc,           \* position of the generator Hakemisto.haku and of its consumer
  request,      \* the request of the running search (what the hook answers)
  haku,         \* the search term of the running search
  ryhmat,       \* groups of itertools.groupby not yet visited
  malli,        \* the model of the group being visited
  jono,         \* indices of the group not yet examined by the comprehension
  nykyinen,     \* the index whose tee_haku is being iterated
  oikeus,       \* hakuoikeus_tietueisiin of the group being visited
  parit,        \* hakemistokohtaiset_tietueet built so far for the group
  tulokset,     \* the Hakutulos objects handed to the consumer so far
  loki          \* history: calls and returns of the hook and of tee_haku

vars == <<hakemistot, koriste, paluu, pc, request, haku, ryhmat, malli,
          jono, nykyinen, oikeus, parit, tulokset, loki>>

hakuvars == <<pc, request, haku, ryhmat, malli, jono, nykyinen, oikeus,
              parit, tulokset, loki>>

----------------------------------------------------------------------------
(* Bounds and input sets *)

MaxHakemistot == 3

\* the search terms a caller passes
Hakusanat == {<<>>, <<"a">>, <<"b">>, <<"a", "b">>}

\* three model classes; m1 and m2 are classes of two apps with one __name__
Mallit == {"m1", "m2", "m3"}

__name__(m) ==
  CASE m = "m1" -> <<"A", "s">>
    [] m = "m2" -> <<"A", "s">>
    [] m = "m3" -> <<"A", "b">>

\* code point of a character, for the characters of the model names
ord(c) ==
  CASE c = "A" -> 65
    [] c = "b" -> 98
    [] c = "s" -> 115

verbose_name_plural(m) ==
  CASE m = "m1" -> "asiakkaat"
    [] m = "m2" -> "asiat"
    [] m = "m3" -> "abonnementit"

\* the rows of each model's table in the order the database returns them,
\* with the values of the two text columns
Rivit == <<1, 2, 3>>

Sarake(pk, sarake) ==
  IF sarake = "nimi"
  THEN CASE pk = 1 -> <<"a", "b">>
         [] pk = 2 -> <<"a">>
         [] pk = 3 -> <<"b", "a">>
  ELSE CASE pk = 1 -> <<"b">>
         [] pk = 2 -> <<"a", "b">>
         [] pk = 3 -> <<"a">>

Ei == [on |-> FALSE, p |-> <<>>]
Ehto(p) == [on |-> TRUE, p |-> p]

\* keyword arguments given to Hakemisto(...)
K1 == [kentta |-> "nimi", hakuehto |-> Ei, haku_muunnos |-> "id",
       enintaan |-> 1, relevanssi |-> 2, kysely |-> "id"]
K2 == [kentta |-> "email", hakuehto |-> Ehto(<<"b">>), haku_muunnos |-> "id",
       enintaan |-> 2, relevanssi |-> 1, kysely |-> "id"]
K3 == [kentta |-> "nimi", hakuehto |-> Ehto(<<".", ".">>), haku_muunnos |-> "eka",
       enintaan |-> 2, relevanssi |-> 1, kysely |-> "kaanteinen"]
K4 == [kentta |-> "email", hakuehto |-> Ei, haku_muunnos |-> "id",
       enintaan |-> 0, relevanssi |-> 3, kysely |-> "id"]
K5 == [kentta |-> "email", hakuehto |-> Ei, haku_muunnos |-> "id",
       enintaan |-> 1, relevanssi |-> 0, kysely |-> "id"]
K6 == [kentta |-> "nimi", hakuehto |-> Ehto(<<"(">>), haku_muunnos |-> "id",
       enintaan |-> 3, relevanssi |-> 0, kysely |-> "id"]

Asetukset == {K1, K2, K3, K4, K5, K6}

\* the registrations the application code makes: model and keyword arguments
Rekisteroinnit ==
  {<<"m1", K1>>, <<"m1", K2>>, <<"m1", K3>>, <<"m1", K4>>,
   <<"m2", K5>>, <<"m3", K5>>, <<"m3", K6>>}

\* what the authorization hook answers for a model: malli.objects.none(),
\* malli.objects.all(), or (an overriding hook) a narrower queryset
Requests == [Mallit -> {"none", "all"}] \cup {[m \in Mallit |-> "osa"]}

None == [t |-> "None"]

----------------------------------------------------------------------------
(* re: the patterns used are sequences of literals and of "." *)

\* re.compile(source): an unbalanced parenthesis raises re.error
re_compile_ok(source) == \A k \in 1..Len(source) : source[k] # "("

\* Pattern.search(s): the pattern matches somewhere in s
re_search(p, s) ==
  \E d \in 0..(Len(s) - Len(p)) :
     \A k \in 1..Len(p) : p[k] = "." \/ p[k] = s[d + k]

\* Pattern.match(s): the pattern matches at the start of s
re_match(p, s) ==
  /\ Len(p) <= Len(s)
  /\ \A k \in 1..Len(p) : p[k] = "." \/ p[k] = s[k]

----------------------------------------------------------------------------
(* Registration *)

\* the dataclass __init__ of Hakemisto
Kuvaus(m, kw) ==
  [malli |-> m, kentta |-> kw.kentta, hakuehto |-> kw.hakuehto,
   haku_muunnos |-> kw.haku_muunnos, enintaan |-> kw.enintaan,
   relevanssi |-> kw.relevanssi, kysely |-> kw.kysely]

\* __post_init__ run twice for one index
__post_init__twice(lista, h) == Append(Append(lista, h), h)

\* the list Hakemisto.hakemistot after __post_init__ of one index
__post_init__(lista, h) == Append(lista, h)

Idle == pc = "idle"

\* super().__new__(cls).__init__(malli, **kwargs); return malli
__new__(m, kw) ==
  IF kw.hakuehto.on /\ ~re_compile_ok(kw.hakuehto.p)
  THEN /\ paluu' = [t |-> "re.error", arvo |-> m]
       /\ UNCHANGED hakemistot
  ELSE /\ hakemistot' = __post_init__(hakemistot, Kuvaus(m, kw))
       /\ paluu' = [t |-> "malli", arvo |-> m]

\* Hakemisto(malli, **kwargs)
Rekisteroi(m, kw) ==
  /\ Idle
  /\ Len(hakemistot) < MaxHakemistot
  /\ __new__(m, kw)
  /\ UNCHANGED <<koriste, hakuvars>>

\* Hakemisto(**kwargs): returns the closure aseta
Koriste(kw) ==
  /\ Idle
  /\ koriste = None
  /\ koriste' = [t |-> "aseta", kw |-> kw]
  /\ paluu' = [t |-> "aseta", arvo |-> "-"]
  /\ UNCHANGED <<hakemistot, hakuvars>>

\* aseta(malli): cls(malli, **kwargs); return malli
aseta(m) ==
  /\ Idle
  /\ koriste # None
  /\ <<m, koriste.kw>> \in Rekisteroinnit
  /\ Len(hakemistot) < MaxHakemistot
  /\ __new__(m, koriste.kw)
  /\ UNCHANGED <<koriste, hakuvars>>

\* the registering code drops its reference to the closure
Vapauta ==
  /\ Idle
  /\ koriste # None
  /\ koriste' = None
  /\ UNCHANGED <<hakemistot, paluu, hakuvars>>

----------------------------------------------------------------------------
(* The database: querysets are the rows they return, in order *)

\* malli.objects.all()
all == [tyhja |-> FALSE, rivit |-> Rivit]

\* malli.objects.none(): the only queryset whose query.is_empty() holds
none == [tyhja |-> TRUE, rivit |-> <<>>]

is_empty(qs) == qs.tyhja

\* the callables passed as haku_muunnos: the default, and lambda haku: haku[:1]
haku_muunnos(f, s) == IF f = "id" \/ s = <<>> THEN s ELSE <<s[1]>>

\* the callables passed as kysely: the default, and lambda qs: qs.reverse()
kysely(f, qs) ==
  IF f = "id" THEN qs
  ELSE [qs EXCEPT !.rivit = [k \in 1..Len(qs.rivit) |-> qs.rivit[Len(qs.rivit) + 1 - k]]]

\* the lookup <kentta>__contains: arvo is a contiguous part of the column
contains(teksti, arvo) ==
  \E k \in 0..(Len(teksti) - Len(arvo)) :
     \A n \in 1..Len(arvo) : teksti[k + n] = arvo[n]

\* QuerySet.filter(**{kentta: arvo})
filter(qs, kentta, arvo) ==
  [qs EXCEPT !.rivit = SelectSeq(qs.rivit, LAMBDA pk : contains(Sarake(pk, kentta), arvo))]

\* QuerySet[:n] for n >= 0
slice(qs, n) ==
  [qs EXCEPT !.rivit = SubSeq(qs.rivit, 1, IF n < Len(qs.rivit) THEN n ELSE Len(qs.rivit))]

\* the rows self.tee_haku(haku, tietueet) yields, for the index h
tee_haku(h, s, tietueet) ==
  slice(filter(kysely(h.kysely, tietueet), h.kentta, haku_muunnos(h.haku_muunnos, s)),
        h.enintaan).rivit

\* Hakemisto.hakuoikeus_tietueisiin as overridden per model: what it returns
hakuoikeus_tietueisiin(req, m) ==
  CASE req[m] = "all" -> all
    [] req[m] = "osa" -> [tyhja |-> FALSE, rivit |-> Tail(Rivit)]
    [] OTHER -> none

----------------------------------------------------------------------------
(* sorted and groupby; indices are named by their position in hakemistot *)

RECURSIVE LtStr(_, _)
\* str.__lt__: lexicographic on code points
LtStr(a, b) ==
  IF b = <<>> THEN FALSE
  ELSE IF a = <<>> THEN TRUE
  ELSE IF ord(Head(a)) # ord(Head(b)) THEN ord(Head(a)) < ord(Head(b))
  ELSE LtStr(Tail(a), Tail(b))

Nimi(i) == __name__(hakemistot[i].malli)

RECURSIVE LisaaNimella(_, _)
LisaaNimella(s, x) ==
  IF s = <<>> THEN <<x>>
  ELSE IF LtStr(Nimi(x), Nimi(Head(s))) THEN <<x>> \o s
  ELSE <<Head(s)>> \o LisaaNimella(Tail(s), x)

\* the registry left in registration order
unsorted(s) == s

RECURSIVE sorted_name(_)
\* sorted(cls.hakemistot, key=attrgetter('malli.__name__')): stable
sorted_name(s) ==
  IF s = <<>> THEN <<>>
  ELSE LisaaNimella(sorted_name(SubSeq(s, 1, Len(s) - 1)), s[Len(s)])

RECURSIVE LisaaRelevanssilla(_, _)
LisaaRelevanssilla(s, x) ==
  IF s = <<>> THEN <<x>>
  ELSE IF hakemistot[x].relevanssi > hakemistot[Head(s)].relevanssi THEN <<x>> \o s
  ELSE <<Head(s)>> \o LisaaRelevanssilla(Tail(s), x)

RECURSIVE sorted_relevanssi(_)
\* sorted(hakemistot, key=attrgetter('relevanssi'), reverse=True): stable
sorted_relevanssi(s) ==
  IF s = <<>> THEN <<>>
  ELSE LisaaRelevanssilla(sorted_relevanssi(SubSeq(s, 1, Len(s) - 1)), s[Len(s)])

RECURSIVE groupby(_)
\* itertools.groupby(..., key=attrgetter('malli')): runs of equal models
groupby(s) ==
  IF s = <<>> THEN <<>>
  ELSE LET g == groupby(Tail(s))
       IN IF g # <<>> /\ hakemistot[Head(g[1])].malli = hakemistot[Head(s)].malli
          THEN <<<<Head(s)>> \o g[1]>> \o Tail(g)
          ELSE <<<<Head(s)>>>> \o g

----------------------------------------------------------------------------
(* Hakutulos *)

\* Hakutulos.HaettuTietue.tietueen_mukaan: str(tietue) and get_absolute_url()
tietueen_mukaan(m, pk) == [teksti |-> <<m, pk>>, url |-> <<"/", m, pk>>]

RECURSIVE max(_)
max(s) ==
  IF Len(s) = 1 THEN s[1]
  ELSE LET r == max(Tail(s)) IN IF s[1] >= r THEN s[1] ELSE r

\* hakemistokohtaiset_tietueet[:n]
Alku(s, n) == SubSeq(s, 1, IF n < Len(s) THEN n ELSE Len(s))

\* Hakutulos.tietueiden_mukaan(malli, hakemistokohtaiset_tietueet); the list
\* tietueet is built from a set, its order is not fixed: it is kept as a set
tietueiden_mukaan(m, hakemistokohtaiset_tietueet) ==
  LET p == hakemistokohtaiset_tietueet
      n == max([k \in 1..Len(p) |-> hakemistot[p[k][1]].enintaan])
      leikattu == Alku(p, n)
  IN [tyyppi |-> verbose_name_plural(m),
      tietueet |-> {tietueen_mukaan(m, leikattu[k][2]) : k \in 1..Len(leikattu)},
      relevanssi |-> max([k \in 1..Len(p) |-> hakemistot[p[k][1]].relevanssi])]

----------------------------------------------------------------------------
(* Hakemisto.haku: the generator runs from one suspension point to the next *)

Tapahtuma(t, m, i, r) == [t |-> t, m |-> m, i |-> i, r |-> r]

\* the generator's frame
Kehys ==
  [pc |-> pc, ryhmat |-> ryhmat, malli |-> malli, jono |-> jono,
   nykyinen |-> nykyinen, oikeus |-> oikeus, parit |-> parit,
   tulokset |-> tulokset, loki |-> loki]

Aseta(S) ==
  /\ pc' = S.pc
  /\ ryhmat' = S.ryhmat
  /\ malli' = S.malli
  /\ jono' = S.jono
  /\ nykyinen' = S.nykyinen
  /\ oikeus' = S.oikeus
  /\ parit' = S.parit
  /\ tulokset' = S.tulokset
  /\ loki' = S.loki

\* the condition without `if haku`
KelpaaIlmanHakua(h, s) == ~h.hakuehto.on \/ re_match(h.hakuehto.p, s)

\* `if haku and (hakuehto is None or hakuehto.match(haku) is not None)`
Kelpaa(h, s) ==
  /\ s # <<>>
  /\ (~h.hakuehto.on \/ re_match(h.hakuehto.p, s))

\* head of `for malli, hakemistot in itertools.groupby(...)`: the next group's
\* hook is called, or the generator ends
Silmukka(S) ==
  IF S.ryhmat = <<>>
  THEN [S EXCEPT !.pc = "valmis", !.malli = "-", !.jono = <<>>, !.nykyinen = 0,
                 !.oikeus = none, !.parit = <<>>,
                 !.loki = Append(S.loki, Tapahtuma("StopAsyncIteration", "-", 0, <<>>))]
  ELSE LET m == hakemistot[Head(S.ryhmat)[1]].malli
       IN [S EXCEPT !.pc = "oikeus", !.malli = m, !.jono = Head(S.ryhmat),
                    !.ryhmat = Tail(S.ryhmat), !.nykyinen = 0, !.oikeus = none,
                    !.parit = <<>>,
                    !.loki = Append(S.loki, Tapahtuma("oikeus_kutsu", m, 0, Head(S.ryhmat)))]

\* the condition of the group is decided: yield the Hakutulos if the list of
\* pairs is not empty, go to the next group otherwise
Ehdolla(S) ==
  IF S.parit # <<>>
  THEN [S EXCEPT !.pc = "yield", !.jono = <<>>, !.nykyinen = 0,
                 !.tulokset = Append(S.tulokset, tietueiden_mukaan(S.malli, S.parit)),
                 !.loki = Append(S.loki, Tapahtuma("yield", S.malli, 0, S.parit))]
  ELSE Silmukka(S)

RECURSIVE Ohita(_, _)
\* the indices of the comprehension from the first one whose condition holds
Ohita(j, s) ==
  IF j = <<>> THEN <<>>
  ELSE IF Kelpaa(hakemistot[Head(j)], s) THEN j
  ELSE Ohita(Tail(j), s)

\* the list comprehension goes on with the indices S.jono: the next index that
\* passes its conditions has its tee_haku started
Lauseke(S) ==
  LET j == Ohita(S.jono, haku)
  IN IF j = <<>> THEN Ehdolla(S)
     ELSE [S EXCEPT !.pc = "tee_haku", !.nykyinen = Head(j), !.jono = Tail(j),
                    !.loki = Append(S.loki, Tapahtuma("haku_alku", S.malli, Head(j), <<>>))]

Tyhja ==
  /\ request = [m \in Mallit |-> "-"]
  /\ haku = <<>>
  /\ ryhmat = <<>>
  /\ malli = "-"
  /\ jono = <<>>
  /\ nykyinen = 0
  /\ oikeus = none
  /\ parit = <<>>
  /\ tulokset = <<>>
  /\ loki = <<>>

\* Hakemisto.haku(request, haku): creates the generator, runs nothing. The
\* registry is filled before searches run: no registration is in progress
\* (no closure is held) and none takes place while a generator is alive
HakuKutsu(req, s) ==
  /\ Idle
  /\ koriste = None
  /\ pc' = "luotu"
  /\ request' = req
  /\ haku' = s
  /\ paluu' = [t |-> "generator", arvo |-> "-"]
  /\ UNCHANGED <<hakemistot, koriste, ryhmat, malli, jono, nykyinen, oikeus,
                 parit, tulokset, loki>>

\* the consumer's __anext__(): the generator starts, or resumes after a yield
Pull ==
  /\ pc \in {"luotu", "yield"}
  /\ LET r == IF pc = "luotu"
              THEN groupby(sorted_name([i \in 1..Len(hakemistot) |-> i]))
              ELSE ryhmat
     IN Aseta(Silmukka([Kehys EXCEPT !.ryhmat = r,
                          !.loki = Append(loki, Tapahtuma("pull", "-", 0, <<>>))]))
  /\ UNCHANGED <<hakemistot, koriste, paluu, request, haku>>

\* await cls.hakuoikeus_tietueisiin(request, malli) returns
OikeusPaluu ==
  /\ pc = "oikeus"
  /\ LET qs == hakuoikeus_tietueisiin(request, malli)
         S == [Kehys EXCEPT !.oikeus = qs,
                 !.loki = Append(loki, Tapahtuma("oikeus_paluu", malli, 0,
                                                 IF is_empty(qs) THEN <<>> ELSE <<1>>))]
     IN IF is_empty(qs)
        THEN Aseta(Silmukka(S))
        ELSE Aseta(Lauseke([S EXCEPT !.jono = sorted_relevanssi(S.jono)]))
  /\ UNCHANGED <<hakemistot, koriste, paluu, request, haku>>

\* an exception leaves the generator: it is raised from __anext__()
Poikkeus(t) ==
  /\ pc' = "virhe"
  /\ loki' = Append(loki, Tapahtuma(t, malli, nykyinen, <<>>))
  /\ UNCHANGED <<hakemistot, koriste, paluu, request, haku, ryhmat, malli, jono,
                 nykyinen, oikeus, parit, tulokset>>

\* the hook raises
OikeusVirhe ==
  /\ pc = "oikeus"
  /\ Poikkeus("oikeus_virhe")

\* the iteration of _hakemisto.tee_haku(haku, hakuoikeus_tietueisiin) ends
HakuPaluu ==
  /\ pc = "tee_haku"
  /\ LET r == tee_haku(hakemistot[nykyinen], haku, oikeus)
         S == [Kehys EXCEPT
                 !.parit = parit \o [k \in 1..Len(r) |-> <<nykyinen, r[k]>>],
                 !.loki = Append(loki, Tapahtuma("haku_loppu", malli, nykyinen, r))]
     IN Aseta(Lauseke(S))
  /\ UNCHANGED <<hakemistot, koriste, paluu, request, haku>>

\* the database raises during the iteration of tee_haku
HakuVirhe ==
  /\ pc = "tee_haku"
  /\ Poikkeus("haku_virhe")

\* the consumer leaves its `async for` after a result, or never starts it:
\* nothing pulls again
Lopeta ==
  /\ pc \in {"luotu", "yield"}
  /\ pc' = "hylatty"
  /\ loki' = Append(loki, Tapahtuma("lopeta", "-", 0, <<>>))
  /\ UNCHANGED <<hakemistot, koriste, paluu, request, haku, ryhmat, malli, jono,
                 nykyinen, oikeus, parit, tulokset>>

\* the generator object and what it produced are dropped
Palaa ==
  /\ pc \in {"valmis", "virhe", "hylatty"}
  /\ pc' = "idle"
  /\ request' = [m \in Mallit |-> "-"]
  /\ haku' = <<>>
  /\ ryhmat' = <<>>
  /\ malli' = "-"
  /\ jono' = <<>>
  /\ nykyinen' = 0
  /\ oikeus' = none
  /\ parit' = <<>>
  /\ tulokset' = <<>>
  /\ loki' = <<>>
  /\ UNCHANGED <<hakemistot, koriste, paluu>>

----------------------------------------------------------------------------

Init ==
  /\ hakemistot = <<>>
  /\ koriste = None
  /\ paluu = [t |-> "None", arvo |-> "-"]
  /\ pc = "idle"
  /\ Tyhja

Next ==
  \/ \E r \in Rekisteroinnit : Rekisteroi(r[1], r[2])
  \/ \E kw \in Asetukset : Koriste(kw)
  \/ \E m \in Mallit : aseta(m)
  \/ Vapauta
  \/ \E req \in Requests, s \in Hakusanat : HakuKutsu(req, s)
  \/ Pull
  \/ OikeusPaluu
  \/ OikeusVirhe
  \/ HakuPaluu
  \/ HakuVirhe
  \/ Lopeta
  \/ Palaa

Spec == Init /\ [][Next]_vars

----------------------------------------------------------------------------
(* What the history shows *)

Paikat(t) == {k \in 1..Len(loki) : loki[k].t = t}

\* the yield events, one per Hakutulos handed out, in order
Tuotetut == SelectSeq(loki, LAMBDA e : e.t = "yield")

Indeksit(m) == {i \in 1..Len(hakemistot) : hakemistot[i].malli = m}

\* a pattern that holds at the start of the term
Alkaa(p, s) ==
  /\ Len(p) <= Len(s)
  /\ \A k \in 1..Len(p) : p[k] \in {".", s[k]}

\* the index is eligible for the term of the running search
Sopii(i) ==
  /\ haku # <<>>
  /\ (hakemistot[i].hakuehto.on => Alkaa(hakemistot[i].hakuehto.p, haku))

\* the rows index i is to fetch for the running search
Loydot(i) ==
  tee_haku(hakemistot[i], haku, hakuoikeus_tietueisiin(request, hakemistot[i].malli))

\* index i goes before index j: higher weight, ties in registration order
Edella(i, j) ==
  \/ hakemistot[i].relevanssi > hakemistot[j].relevanssi
  \/ hakemistot[i].relevanssi = hakemistot[j].relevanssi /\ i < j

----------------------------------------------------------------------------
\* C1: no Hakutulos is handed out for a model whose authorized queryset is
\* empty, nor for a model none of whose indices is eligible for the term; an
\* empty term, or a request with no rights at all, gives no Hakutulos
EiTulostaIlmanOikeuttaTaiEhtoa ==
  /\ Len(Tuotetut) = Len(tulokset)
  /\ \A k \in 1..Len(tulokset) :
       LET m == Tuotetut[k].m
       IN /\ tulokset[k].tyyppi = verbose_name_plural(m)
          /\ request[m] # "none"
          /\ \E i \in Indeksit(m) : Sopii(i)
  /\ (haku = <<>> => tulokset = <<>>)
  /\ ((\A m \in Mallit : request[m] = "none") => tulokset = <<>>)

\* a finished search that skipped a model without rights and one without an
\* eligible index, and still produced a result
C1Witness ==
  /\ pc = "valmis"
  /\ tulokset # <<>>
  /\ \E m \in Mallit : Indeksit(m) # {} /\ request[m] = "none"
  /\ \E m \in Mallit :
       Indeksit(m) # {} /\ request[m] # "none" /\ \A i \in Indeksit(m) : ~Sopii(i)

----------------------------------------------------------------------------
\* C4: the Hakutulos objects of one search come in ascending order of the
\* __name__ of their models (str order), whatever the weights of the indices
TuloksetNimenMukaan ==
  \A j, k \in 1..Len(Tuotetut) :
     j < k => ~LtStr(__name__(Tuotetut[k].m), __name__(Tuotetut[j].m))

\* the model registered first has the later name and the higher weight, and
\* its result comes second
C4Witness ==
  /\ Len(tulokset) = 2
  /\ Len(Tuotetut) = 2
  /\ hakemistot[1].malli = Tuotetut[2].m
  /\ LtStr(__name__(Tuotetut[1].m), __name__(Tuotetut[2].m))
  /\ tulokset[1].relevanssi < tulokset[2].relevanssi

----------------------------------------------------------------------------
\* C5: an index whose hakuehto does not hold at the start of the term is
\* never fetched and is absent from the pairs, the cap and the relevance of
\* every Hakutulos; the model's other indices still give the model's result
HakuehtoRajaa ==
  /\ \A k \in Paikat("haku_alku") : Sopii(loki[k].i)
  /\ \A k \in 1..Len(Tuotetut) :
       LET m == Tuotetut[k].m
           p == Tuotetut[k].r
           ok == {i \in Indeksit(m) : Sopii(i)}
       IN /\ \A n \in 1..Len(p) : p[n][1] \in ok
          /\ k <= Len(tulokset)
          /\ \E i \in ok : tulokset[k].relevanssi = hakemistot[i].relevanssi
          /\ \E i \in ok : Cardinality(tulokset[k].tietueet) <= hakemistot[i].enintaan
  /\ pc = "valmis" =>
       \A m \in Mallit :
          (/\ request[m] # "none"
           /\ \E i \in Indeksit(m) :
                Sopii(i) /\ Loydot(i) # <<>>)
          => \E k \in 1..Len(Tuotetut) : Tuotetut[k].m = m

\* the term "ab": the index with hakuehto "b" is left out although "b" occurs
\* in the term, and the model's result is given by its sibling
C5Witness ==
  /\ pc = "valmis"
  /\ haku = <<"a", "b">>
  /\ \E k \in 1..Len(Tuotetut) :
       \E i, j \in Indeksit(Tuotetut[k].m) :
          /\ hakemistot[i].hakuehto.on
          /\ ~Sopii(i)
          /\ contains(haku, hakemistot[i].hakuehto.p)
          /\ Sopii(j)
          /\ \E n \in 1..Len(Tuotetut[k].r) : Tuotetut[k].r[n][1] = j

----------------------------------------------------------------------------
\* C7: a call that registers a model appends exactly one index at the end of
\* hakemistot and returns the model; Hakemisto(**kwargs) appends nothing and
\* returns the closure; nothing else changes hakemistot (append-only)
VainLisataanLoppuun ==
  [][/\ \/ hakemistot' = hakemistot
        \/ /\ Len(hakemistot') = Len(hakemistot) + 1
           /\ SubSeq(hakemistot', 1, Len(hakemistot)) = hakemistot
           /\ paluu'.t = "malli"
           /\ paluu'.arvo = hakemistot'[Len(hakemistot')].malli
     /\ (paluu' # paluu /\ paluu'.t = "malli")
          => Len(hakemistot') = Len(hakemistot) + 1
     /\ paluu'.t \in {"aseta", "generator", "re.error"}
          => hakemistot' = hakemistot
    ]_vars

\* the closure has been applied to a model and its index is the last of three
C7Witness ==
  /\ koriste # None
  /\ paluu = [t |-> "malli", arvo |-> "m1"]
  /\ Len(hakemistot) = 3
  /\ hakemistot[3] = Kuvaus("m1", koriste.kw)
  /\ hakemistot[1].malli = "m3"

----------------------------------------------------------------------------
\* C6: within one search the hook is called at most once for a model and at
\* most one Hakutulos is handed out for a model
KerranPerMalli ==
  \A m \in Mallit :
     /\ Cardinality({k \in Paikat("oikeus_kutsu") : loki[k].m = m}) <= 1
     /\ Cardinality({k \in Paikat("yield") : loki[k].m = m}) <= 1

----------------------------------------------------------------------------
\* C8: every registered index has enintaan >= 1
EnintaanPositiivinen ==
  \A i \in 1..Len(hakemistot) : hakemistot[i].enintaan >= 1

----------------------------------------------------------------------------
(* The result the indices I of one model are to give for the running term *)

\* the indices of I that are eligible and match at least one row
Osalliset(I) ==
  {i \in I : Sopii(i) /\ Loydot(i) # <<>>}

RECURSIVE Jarjestetty(_)
\* the indices of I, higher weight first, ties in registration order
Jarjestetty(I) ==
  IF I = {} THEN <<>>
  ELSE LET x == CHOOSE x \in I : \A y \in I \ {x} : Edella(x, y)
       IN <<x>> \o Jarjestetty(I \ {x})

RECURSIVE Litistetty(_)
\* the pairs (index, row) of a sequence of indices, each in its fetch order
Litistetty(q) ==
  IF q = <<>> THEN <<>>
  ELSE LET r == Loydot(Head(q))
       IN [k \in 1..Len(r) |-> <<Head(q), r[k]>>] \o Litistetty(Tail(q))

\* cap: the largest enintaan of the contributing indices
Katto(I) ==
  CHOOSE n \in {hakemistot[i].enintaan : i \in Osalliset(I)} :
     \A i \in Osalliset(I) : hakemistot[i].enintaan <= n

\* the capped prefix of the flattened list
Karki(I) ==
  LET p == Litistetty(Jarjestetty(Osalliset(I)))
  IN SubSeq(p, 1, IF Katto(I) < Len(p) THEN Katto(I) ELSE Len(p))

\* the largest weight among the indices with a pair in the capped prefix
KarjenRelevanssi(I) ==
  LET w == {hakemistot[Karki(I)[k][1]].relevanssi : k \in 1..Len(Karki(I))}
  IN CHOOSE x \in w : \A y \in w : y <= x

\* the indices of the group visited when the k-th Hakutulos was built
Ryhma(k) ==
  LET y == CHOOSE y \in Paikat("yield") :
              Cardinality({z \in Paikat("yield") : z <= y}) = k
      c == CHOOSE c \in Paikat("oikeus_kutsu") :
              c < y /\ \A d \in Paikat("oikeus_kutsu") : d < y => d <= c
  IN {loki[c].r[n] : n \in 1..Len(loki[c].r)}

----------------------------------------------------------------------------
\* C2: the relevanssi of every Hakutulos is the largest weight among the
\* indices of its model that have a pair in the capped prefix of the model's
\* flattened list
RelevanssiKarjesta ==
  \A k \in 1..Len(tulokset) :
     /\ Osalliset(Indeksit(Tuotetut[k].m)) # {}
     /\ tulokset[k].relevanssi = KarjenRelevanssi(Indeksit(Tuotetut[k].m))

\* the same of the indices of the group the Hakutulos was built from: this
\* holds of every visit of a group
RelevanssiKarjestaKaynnilla ==
  \A k \in 1..Len(tulokset) :
     /\ Osalliset(Ryhma(k)) # {}
     /\ tulokset[k].relevanssi = KarjenRelevanssi(Ryhma(k))

----------------------------------------------------------------------------
\* C3: the tietueet of every Hakutulos are the distinct rows of the capped
\* prefix of its model's flattened list, so they are at most cap many
TietueetKarjesta ==
  \A k \in 1..Len(tulokset) :
     LET I == Indeksit(Tuotetut[k].m)
     IN /\ Osalliset(I) # {}
        /\ tulokset[k].tietueet =
             {tietueen_mukaan(Tuotetut[k].m, Karki(I)[n][2]) : n \in 1..Len(Karki(I))}
        /\ Cardinality(tulokset[k].tietueet) <= Katto(I)

\* the same of the indices of the group the Hakutulos was built from: this
\* holds of every visit of a group
TietueetKarjestaKaynnilla ==
  \A k \in 1..Len(tulokset) :
     LET I == Ryhma(k)
     IN /\ Osalliset(I) # {}
        /\ tulokset[k].tietueet =
             {tietueen_mukaan(Tuotetut[k].m, Karki(I)[n][2]) : n \in 1..Len(Karki(I))}
        /\ Cardinality(tulokset[k].tietueet) <= Katto(I)

\* a visit whose flattened list is longer than the cap, with a row fetched by
\* two indices and a row cut off by the cap
KaynninWitness ==
  /\ Len(tulokset) = 1
  /\ Len(Tuotetut) = 1
  /\ Len(Tuotetut[1].r) > Katto(Ryhma(1))
  /\ Cardinality(tulokset[1].tietueet) < Katto(Ryhma(1))
  /\ \E n \in 1..Len(Tuotetut[1].r) :
       tietueen_mukaan(Tuotetut[1].m, Tuotetut[1].r[n][2]) \notin tulokset[1].tietueet

----------------------------------------------------------------------------
Virheet == Paikat("oikeus_virhe") \cup Paikat("haku_virhe")

Kutsut == Paikat("oikeus_kutsu") \cup Paikat("haku_alku")

\* the group being visited at position a of the history
RyhmaKohdassa(a) ==
  LET c == CHOOSE c \in Paikat("oikeus_kutsu") :
              c <= a /\ \A d \in Paikat("oikeus_kutsu") : d <= a => d <= c
  IN loki[c].r

\* C9: a failure of the hook or of a fetch while model T is processed ends the
\* search with the failure: no Hakutulos for T or for a later model has been
\* handed out, nothing follows the failure, and the hook was called at most
\* once per model and every index fetched at most once
VirheEteneeKuluttajalle ==
  /\ pc = "virhe" =>
       /\ Len(loki) \in Virheet
       /\ \A k \in Paikat("yield") :
            /\ loki[k].m # malli
            /\ ~LtStr(__name__(malli), __name__(loki[k].m))
  /\ \A k \in Virheet : k = Len(loki) /\ pc = "virhe"
  /\ \A m \in Mallit :
       Cardinality({k \in Paikat("oikeus_kutsu") : loki[k].m = m}) <= 1
  /\ \A i \in 1..Len(hakemistot) :
       Cardinality({k \in Paikat("haku_alku") : loki[k].i = i}) <= 1

\* the same of the visits of groups: the failure is the last event, every
\* group is visited at most once and every index fetched at most once
VirheEteneeKaynnilta ==
  /\ pc = "virhe" => Len(loki) \in Virheet
  /\ \A k \in Virheet : k = Len(loki) /\ pc = "virhe"
  /\ \A c, d \in Paikat("oikeus_kutsu") : c # d => loki[c].r # loki[d].r
  /\ \A i \in 1..Len(hakemistot) :
       Cardinality({k \in Paikat("haku_alku") : loki[k].i = i}) <= 1

----------------------------------------------------------------------------
\* what C10 and its form for visits share: calls follow a pull, models with a
\* later name wait for the earlier model's result to be taken and pulled past,
\* nothing is called after the consumer stops, and a search pulled to its end
\* has called the hook for every registered model
VetoOhjaa ==
  /\ \A x \in Kutsut :
       \E q \in Paikat("pull") :
          q < x /\ \A y \in Paikat("yield") : ~(q < y /\ y < x)
  /\ \A x, z \in Kutsut :
       LtStr(__name__(loki[x].m), __name__(loki[z].m)) => x < z
  /\ \A y \in Paikat("yield") : \A x \in Kutsut :
       LtStr(__name__(loki[y].m), __name__(loki[x].m))
         => y + 1 < x /\ loki[y + 1].t = "pull"
  /\ \A k \in Paikat("lopeta") : k = Len(loki) /\ pc = "hylatty"
  /\ pc = "valmis" =>
       /\ loki[Len(loki)].t = "StopAsyncIteration"
       /\ \A m \in Mallit :
            Indeksit(m) # {} => \E k \in Paikat("oikeus_kutsu") : loki[k].m = m

\* C10: a fetch of an index of model T starts only after the hook returned a
\* non-empty queryset for T and after the fetches of all higher-ranked indices
\* of T have ended; models are processed one after another under the
\* consumer's pulls
HautJarjestyksessa ==
  /\ VetoOhjaa
  /\ \A a \in Paikat("haku_alku") :
       /\ \E b \in Paikat("oikeus_paluu") :
            b < a /\ loki[b].m = loki[a].m /\ loki[b].r # <<>>
       /\ \A c \in Paikat("haku_alku") :
            (loki[c].m = loki[a].m /\ Edella(loki[c].i, loki[a].i))
              => \E d \in Paikat("haku_loppu") : d < a /\ loki[d].i = loki[c].i

\* the same with the ranking taken within the group being visited
HautJarjestyksessaKaynnilla ==
  /\ VetoOhjaa
  /\ \A a \in Paikat("haku_alku") :
       LET g == RyhmaKohdassa(a)
       IN /\ \E b \in Paikat("oikeus_paluu") :
               /\ b < a
               /\ \A c \in Paikat("oikeus_kutsu") : c < a => c < b
               /\ loki[b].r # <<>>
          /\ \A n \in 1..Len(g) :
               (Sopii(g[n]) /\ Edella(g[n], loki[a].i))
                 => \E d \in Paikat("haku_loppu") : d < a /\ loki[d].i = g[n]

====
